---- MODULE Spec2Model ----
(***************************************************************************)
(* Model of front-end/assets/script.js (class TodoApp): the in-memory     *)
(* view state of the todo front end, the API calls it issues and the      *)
(* responses it merges back.  The remote CRUD API (class TodoAPI, not     *)
(* part of script.js) is modelled as a server that handles each request   *)
(* at some moment between its issue and its response, and may fail it.    *)
(***************************************************************************)
EXTENDS Integers, Sequences, FiniteSets, Bags, TLC

(* ---------------------------- bounds ---------------------------------- *)
MaxProjectId == 3      \* project ids the server can hand out
MaxTodoId    == 2      \* todo ids the server can hand out
MaxInFlight  == 2      \* API calls awaiting their response at one time
MaxBanners   == 1      \* error banners (shown or about to be) at one time
MaxCalls     == 4      \* API calls issued in one run
MaxListLen   == 3      \* length of the todo lists the filter is tried on

(* setTimeout(() => error.remove(), 3000): the delay, in seconds *)
BannerDelay == 3

(* --------------------------- values ----------------------------------- *)
\* JavaScript values that take part in === / !== / truthiness tests are
\* tagged with their type: <<"num", n>>, <<"str", n>> (the decimal string of
\* n, n = 0 standing for the empty string ""), <<"null", 0>>.
Null     == <<"null", 0>>
EmptyStr == <<"str", 0>>
Num(n)   == <<"num", n>>
Str(n)   == <<"str", n>>

\* `${value}` in a template / an attribute value read back: always a string
ToStr(v) == <<"str", v[2]>>

\* mutant of Falsy: only null counts, the empty string does not
FalsyNullOnly(v) == v = Null

\* !v
Falsy(v) == v \in {Null, EmptyStr, Num(0)}

ProjectNums == 1..MaxProjectId
TodoIds     == 1..MaxTodoId

Filters == {"all", "active", "completed"}

\* texts are sequences of characters
Space  == " "
Inputs == {<<>>, <<Space>>, <<Space, "a", Space>>}

\* answers of prompt('Enter project name:'): null on cancel, "" or a name
PromptAnswers == {"cancel", "", "p"}

VARIABLES
    \* --- TodoApp fields (constructor, lines 2-11)
    projects,        \* this.projects: sequence of [id, name]
    todos,           \* this.todos: sequence of [id, text, completed]
    currentProject,  \* this.currentProject: Null or a string id
    currentFilter,   \* this.currentFilter
    \* --- DOM
    selectOptions,   \* option values of #projectSelect after the placeholder
    selectValue,     \* projectSelect.value
    todoInput,       \* todoInput.value
    todoHidden,      \* todoContent has class 'hidden'
    loadingHidden,   \* loadingIndicator has class 'hidden'
    rows,            \* rows of todoList.innerHTML written by render()
    taskCount,       \* taskCount.textContent written by render()
    banners,         \* error banners: sequence of [msg, age]
    \* --- API
    calls,           \* bag of the calls awaiting their response
    issued,          \* number of API calls issued so far
    idKind,          \* the JSON type of the ids the server returns
    srvProjects,     \* project numbers that exist on the server
    nextProjectId,   \* next project number the server assigns
    srvTodos,        \* server todo table: id -> [project, text, completed, st]
    failed           \* some API call has failed (a rejected promise) so far

vars == <<projects, todos, currentProject, currentFilter, selectOptions,
          selectValue, todoInput, todoHidden, loadingHidden, rows, taskCount,
          banners, calls, issued, idKind, srvProjects, nextProjectId, srvTodos,
          failed>>

domVars == <<selectOptions, selectValue, todoInput, todoHidden, loadingHidden,
             rows, taskCount>>
srvVars == <<idKind, srvProjects, nextProjectId, srvTodos, failed>>

\* the in-memory state of the controller
Snapshot == <<projects, todos, currentProject, currentFilter>>

(* ------------------------ sequence helpers ---------------------------- *)
RemoveAt(s, i) == [j \in 1..(Len(s) - 1) |-> IF j < i THEN s[j] ELSE s[j + 1]]

\* Array.prototype.map
Map(s, F(_)) == [j \in 1..Len(s) |-> F(s[j])]

\* Array.prototype.filter
Filter(s, P(_)) == SelectSeq(s, P)

\* String.prototype.trim
RECURSIVE TrimLeft(_)
TrimLeft(s) == IF s # <<>> /\ Head(s) = Space THEN TrimLeft(Tail(s)) ELSE s

RECURSIVE TrimRight(_)
TrimRight(s) ==
    IF s # <<>> /\ s[Len(s)] = Space THEN TrimRight(SubSeq(s, 1, Len(s) - 1)) ELSE s

\* mutant of Trim: only the leading spaces are dropped
TrimStart(s) == TrimLeft(s)

Trim(s) == TrimRight(TrimLeft(s))

(* ----------------------------- rendering ------------------------------ *)
\* mutant of GetFilteredTodos: the two filtering cases are swapped
GetFilteredSwapped(ts, f) ==
    CASE f = "active"    -> Filter(ts, LAMBDA todo : todo.completed)
      [] f = "completed" -> Filter(ts, LAMBDA todo : ~todo.completed)
      [] OTHER           -> ts

\* getFilteredTodos(), lines 190-199, of a todo list under a filter
GetFilteredTodos(ts, f) ==
    CASE f = "active"    -> Filter(ts, LAMBDA todo : ~todo.completed)
      [] f = "completed" -> Filter(ts, LAMBDA todo : todo.completed)
      [] OTHER           -> ts

\* one <div class="todo-item"> of render(), lines 220-228
Row(todo) == [checked |-> todo.completed, id |-> todo.id, text |-> todo.text]

\* mutant of RenderRows: a row is written for every todo, whatever the filter
RenderRowsAll(ts, f) == Map(ts, Row)

\* todoList.innerHTML of render(), lines 218-229
RenderRows(ts, f) == Map(GetFilteredTodos(ts, f), Row)

\* mutant of RenderCount: the plural is written whatever the count
RenderCountPlural(ts) ==
    <<Len(Filter(ts, LAMBDA todo : ~todo.completed)), "tasks", "left">>

\* taskCount.textContent of render(), lines 231-232
RenderCount(ts) ==
    LET activeTodos == Len(Filter(ts, LAMBDA todo : ~todo.completed))
    IN  <<activeTodos, IF activeTodos # 1 THEN "tasks" ELSE "task", "left">>

\* the <option> values renderProjects() writes, lines 59-64
RenderOptions(ps) == Map(ps, LAMBDA project : ToStr(project.id))

\* mutant of SetSelectValue: the value is compared without conversion
SetSelectValueStrict(opts, v) ==
    IF \E k \in DOMAIN opts : opts[k] = v THEN v ELSE EmptyStr

\* projectSelect.value = v: selects the option whose value is String(v), if any
SetSelectValue(opts, v) ==
    IF \E k \in DOMAIN opts : opts[k] = ToStr(v) THEN ToStr(v) ELSE EmptyStr

(* ----------------------------- API calls ------------------------------ *)
\* mutant of ErrorMessage: one message for every operation
ErrorMessageGeneric(op) == "Something went wrong"

\* error messages of the catch blocks
ErrorMessage(op) ==
    CASE op = "loadProjects"  -> "Failed to load projects"
      [] op = "createProject" -> "Failed to create project"
      [] op = "deleteProject" -> "Failed to delete project"
      [] op = "changeProject" -> "Failed to load todos"
      [] op = "addTodo"       -> "Failed to add todo"
      [] op = "toggleTodo"    -> "Failed to update todo"
      [] op = "deleteTodo"    -> "Failed to delete todo"

\* A call awaiting its response.  op: the handler that awaits it; phase:
\* "req" (request on its way), "ok" / "fail" (response on its way); proj, id,
\* text, completed, name: the arguments sent (name is also the `name` local
\* of createProject while it awaits its own changeProject); gotProjects, gotTodos: the
\* records the response carries; pre: the in-memory state just before the
\* handler was invoked, kept while no other handler has run since (<<>>
\* otherwise).
Call(op, proj, id, text, completed, name, pre) ==
    [op |-> op, phase |-> "req", proj |-> proj, id |-> id, text |-> text,
     completed |-> completed, name |-> name, gotProjects |-> <<>>,
     gotTodos |-> <<>>, pre |-> pre]

One(c) == SetToBag({c})

RECURSIVE Copies(_, _, _)
Copies(cs, S, d) ==
    IF S = {} THEN 0
    ELSE LET c == CHOOSE x \in S : TRUE
         IN  (IF [c EXCEPT !.pre = <<>>] = d THEN cs[c] ELSE 0) + Copies(cs, S \ {c}, d)

\* another handler runs: the calls in flight are no longer alone
Interleave(cs) ==
    [d \in {[c EXCEPT !.pre = <<>>] : c \in BagToSet(cs)} |-> Copies(cs, BagToSet(cs), d)]

PreIfAlone == IF calls = EmptyBag THEN <<Snapshot>> ELSE <<>>

InFlight == BagCardinality(calls)

(* ------------------------------- server ------------------------------- *)
\* the id of project number n as the server's JSON carries it
ProjectId(n) == <<idKind, n>>

RECURSIVE SortedSeq(_)
SortedSeq(S) ==
    IF S = {} THEN <<>>
    ELSE LET m == CHOOSE x \in S : \A y \in S : x <= y
         IN  <<m>> \o SortedSeq(S \ {m})

ProjectRecord(n) == [id |-> ProjectId(n), name |-> "p"]
TodoRecord(i) ==
    [id |-> i, text |-> srvTodos[i].text, completed |-> srvTodos[i].completed]

LiveTodos(n) == {i \in TodoIds : srvTodos[i].st = "live" /\ srvTodos[i].project = n}
FreeTodoIds  == {i \in TodoIds : srvTodos[i].st = "free"}

\* the project number a request path names, 0 when it names none
PathProject(proj) == IF proj[1] = "str" THEN proj[2] ELSE 0

InitProjects == {1, 2}
InitTodos ==
    [i \in TodoIds |->
        IF i = 1
        THEN [project |-> 1, text |-> <<"a">>, completed |-> FALSE, st |-> "live"]
        ELSE [project |-> 0, text |-> <<>>, completed |-> FALSE, st |-> "free"]]

Pending(op) ==
    BagCardinality([c \in {x \in BagToSet(calls) : x.op = op /\ x.phase = "req"}
                      |-> calls[c]])
Failing ==
    BagCardinality([c \in {x \in BagToSet(calls) : x.phase = "fail"} |-> calls[c]])

Reply(c, gotProjects, gotTodos) ==
    /\ calls' = (calls (-) One(c)) (+)
                One([c EXCEPT !.phase = "ok", !.gotProjects = gotProjects,
                              !.gotTodos = gotTodos])
    /\ UNCHANGED <<projects, todos, currentProject, currentFilter, domVars, banners,
                   issued>>

\* any request may fail (network or server error)
SrvFail(c) ==
    /\ c.phase = "req"
    /\ Len(banners) + Failing < MaxBanners
    /\ calls' = (calls (-) One(c)) (+) One([c EXCEPT !.phase = "fail"])
    /\ failed' = TRUE
    /\ UNCHANGED <<projects, todos, currentProject, currentFilter, domVars, banners,
                   issued, idKind, srvProjects, nextProjectId, srvTodos>>

\* getProjects() -> list of Project
SrvGetProjects(c) ==
    /\ c.phase = "req" /\ c.op = "loadProjects"
    /\ Reply(c, Map(SortedSeq(srvProjects), ProjectRecord), <<>>)
    /\ UNCHANGED srvVars

\* createProject(name) -> Project
SrvCreateProject(c) ==
    /\ c.phase = "req" /\ c.op = "createProject"
    /\ nextProjectId <= MaxProjectId
    /\ srvProjects' = srvProjects \cup {nextProjectId}
    /\ nextProjectId' = nextProjectId + 1
    /\ Reply(c, <<[id |-> ProjectId(nextProjectId), name |-> c.name]>>, <<>>)
    /\ UNCHANGED <<idKind, srvTodos, failed>>

\* deleteProject(id) -> void; the project's todos go with it
SrvDeleteProject(c) ==
    /\ c.phase = "req" /\ c.op = "deleteProject"
    /\ PathProject(c.proj) \in srvProjects
    /\ srvProjects' = srvProjects \ {PathProject(c.proj)}
    /\ srvTodos' = [t \in TodoIds |->
                      IF t \in LiveTodos(PathProject(c.proj))
                      THEN [srvTodos[t] EXCEPT !.st = "gone"] ELSE srvTodos[t]]
    /\ Reply(c, <<>>, <<>>)
    /\ UNCHANGED <<idKind, nextProjectId, failed>>

\* getTodos(projectId) -> list of Todo
SrvGetTodos(c) ==
    /\ c.phase = "req" /\ c.op = "changeProject"
    /\ PathProject(c.proj) \in srvProjects
    /\ Reply(c, <<>>, Map(SortedSeq(LiveTodos(PathProject(c.proj))), TodoRecord))
    /\ UNCHANGED srvVars

\* createTodo(projectId, {text, completed}) -> Todo
SrvCreateTodo(c) ==
    /\ c.phase = "req" /\ c.op = "addTodo"
    /\ PathProject(c.proj) \in srvProjects
    /\ FreeTodoIds # {}
    /\ LET t == CHOOSE x \in FreeTodoIds : \A y \in FreeTodoIds : x <= y
       IN  /\ srvTodos' = [srvTodos EXCEPT ![t] =
                              [project |-> PathProject(c.proj), text |-> c.text,
                               completed |-> c.completed, st |-> "live"]]
           /\ Reply(c, <<>>, <<[id |-> t, text |-> c.text, completed |-> c.completed]>>)
    /\ UNCHANGED <<idKind, srvProjects, nextProjectId, failed>>

\* updateTodo(projectId, id, {completed}) -> Todo
SrvUpdateTodo(c) ==
    /\ c.phase = "req" /\ c.op = "toggleTodo"
    /\ PathProject(c.proj) \in srvProjects
    /\ c.id \in LiveTodos(PathProject(c.proj))
    /\ srvTodos' = [srvTodos EXCEPT ![c.id].completed = c.completed]
    /\ Reply(c, <<>>, <<[id |-> c.id, text |-> srvTodos[c.id].text,
                         completed |-> c.completed]>>)
    /\ UNCHANGED <<idKind, srvProjects, nextProjectId, failed>>

\* deleteTodo(projectId, id) -> void
SrvDeleteTodo(c) ==
    /\ c.phase = "req" /\ c.op = "deleteTodo"
    /\ PathProject(c.proj) \in srvProjects
    /\ c.id \in LiveTodos(PathProject(c.proj))
    /\ srvTodos' = [srvTodos EXCEPT ![c.id].st = "gone"]
    /\ Reply(c, <<>>, <<>>)
    /\ UNCHANGED <<idKind, srvProjects, nextProjectId, failed>>

(* ------------------------------ TodoApp ------------------------------- *)
\* the state after `new TodoApp()`: the constructor has called loadProjects(),
\* which has shown the loading indicator and awaits getProjects()
Init ==
    /\ projects = <<>>
    /\ todos = <<>>
    /\ currentProject = Null
    /\ currentFilter = "all"
    /\ selectOptions = <<>>
    /\ selectValue = EmptyStr
    /\ todoInput = <<>>
    /\ todoHidden = TRUE
    /\ loadingHidden = FALSE
    /\ rows = <<>>
    /\ taskCount = <<>>
    /\ banners = <<>>
    /\ calls = One(Call("loadProjects", Null, 0, <<>>, FALSE, "",
                        <<<<<<>>, <<>>, Null, "all">>>>))
    /\ issued = 1
    /\ idKind \in {"num", "str"}
    /\ srvProjects = InitProjects
    /\ nextProjectId = Cardinality(InitProjects) + 1
    /\ srvTodos = InitTodos
    /\ failed = FALSE

\* showError(message), lines 174-180
ShowError(message) == banners' = Append(banners, [msg |-> message, age |-> 0])

\* the catch and finally blocks every handler shares
ApplyFail(c) ==
    /\ c.phase = "fail"
    /\ ShowError(ErrorMessage(c.op))
    /\ loadingHidden' = TRUE
    /\ calls' = calls (-) One(c)
    /\ UNCHANGED <<projects, todos, currentProject, currentFilter, selectOptions,
                   selectValue, todoInput, todoHidden, rows, taskCount, issued, srvVars>>

\* a handler that returns before its try block
Noop ==
    /\ calls' = Interleave(calls)
    /\ UNCHANGED <<projects, todos, currentProject, currentFilter, banners, issued,
                   srvVars>>

\* showLoading(); <await this.api...>: the call is issued
Issue(call) ==
    /\ InFlight < MaxInFlight
    /\ issued + (IF call.op = "createProject" THEN 2 ELSE 1) <= MaxCalls
    /\ issued' = issued + (IF call.op = "createProject" THEN 2 ELSE 1)
    /\ loadingHidden' = FALSE
    /\ calls' = Interleave(calls) (+) One(call)
    /\ UNCHANGED <<banners, srvVars>>

\* loadProjects(), lines 47-57, from the response on
LoadProjectsOk(c) ==
    /\ c.phase = "ok" /\ c.op = "loadProjects"
    /\ projects' = c.gotProjects
    /\ selectOptions' = RenderOptions(projects')
    /\ selectValue' = EmptyStr
    /\ loadingHidden' = TRUE
    /\ calls' = calls (-) One(c)
    /\ UNCHANGED <<todos, currentProject, currentFilter, todoInput, todoHidden, rows,
                   taskCount, banners, issued, srvVars>>

\* createProject(), lines 66-72: the prompt, the guard and the request
CreateProject(answer) ==
    IF answer \in {"cancel", ""}
    THEN Noop /\ UNCHANGED domVars
    ELSE /\ nextProjectId + Pending("createProject") <= MaxProjectId
         /\ Issue(Call("createProject", Null, 0, <<>>, FALSE, answer, PreIfAlone))
         /\ UNCHANGED <<projects, todos, currentProject, currentFilter, selectOptions,
                        selectValue, todoInput, todoHidden, rows, taskCount>>

\* createProject(), lines 72-76, from the response on: the project is pushed and
\* selected and changeProject() runs up to its own await (lines 101-111)
CreateProjectOk(c) ==
    /\ c.phase = "ok" /\ c.op = "createProject"
    /\ projects' = Append(projects, c.gotProjects[1])
    /\ selectOptions' = RenderOptions(projects')
    /\ selectValue' = SetSelectValue(selectOptions', c.gotProjects[1].id)
    /\ IF Falsy(selectValue')
       THEN /\ todoHidden' = TRUE
            /\ loadingHidden' = TRUE
            /\ calls' = calls (-) One(c)
            /\ UNCHANGED currentProject
       ELSE /\ loadingHidden' = FALSE
            /\ currentProject' = selectValue'
            /\ calls' = (calls (-) One(c)) (+)
                  One(Call("changeProject", selectValue', 0, <<>>, FALSE, c.name,
                           IF c.pre = <<>> THEN <<>>
                           ELSE <<<<projects', todos, currentProject, currentFilter>>>>))
            /\ UNCHANGED todoHidden
    /\ UNCHANGED <<todos, currentFilter, todoInput, rows, taskCount, banners, issued, srvVars>>

\* deleteProject(), lines 84-89: the guard, the confirmation and the request
DeleteProject(confirmed) ==
    IF Falsy(currentProject) \/ ~confirmed
    THEN Noop /\ UNCHANGED domVars
    ELSE /\ Issue(Call("deleteProject", currentProject, 0, <<>>, FALSE, "", PreIfAlone))
         /\ UNCHANGED <<projects, todos, currentProject, currentFilter, selectOptions,
                        selectValue, todoInput, todoHidden, rows, taskCount>>

\* this.projects.filter(p => p.id !== this.currentProject), line 90
WithoutCurrent(ps, current) == Filter(ps, LAMBDA p : p.id # current)

\* deleteProject(), lines 90-93, from the response on
DeleteProjectOk(c) ==
    /\ c.phase = "ok" /\ c.op = "deleteProject"
    /\ projects' = WithoutCurrent(projects, currentProject)
    /\ currentProject' = Null
    /\ selectOptions' = RenderOptions(projects')
    /\ selectValue' = EmptyStr
    /\ todoHidden' = TRUE
    /\ loadingHidden' = TRUE
    /\ calls' = calls (-) One(c)
    /\ UNCHANGED <<todos, currentFilter, todoInput, rows, taskCount, banners, issued, srvVars>>

\* the user picks an option of #projectSelect: its change event runs
\* changeProject(), lines 101-111
ChangeProject(value) ==
    /\ value \in {EmptyStr} \cup {selectOptions[k] : k \in DOMAIN selectOptions}
    /\ value # selectValue
    /\ selectValue' = value
    /\ IF Falsy(value)
       THEN /\ Noop
            /\ todoHidden' = TRUE
            /\ UNCHANGED <<selectOptions, todoInput, loadingHidden, rows, taskCount>>
       ELSE /\ Issue(Call("changeProject", value, 0, <<>>, FALSE, "", PreIfAlone))
            /\ currentProject' = value
            /\ UNCHANGED <<projects, todos, currentFilter, selectOptions, todoInput,
                           todoHidden, rows, taskCount>>

\* mutant of ChangeProjectOk: the list of a project that is no longer the
\* current one is dropped, so the request issued last wins
ChangeProjectOkIfCurrent(c) ==
    /\ c.phase = "ok" /\ c.op = "changeProject"
    /\ todos' = IF c.proj = currentProject THEN c.gotTodos ELSE todos
    /\ todoHidden' = FALSE
    /\ rows' = RenderRows(todos', currentFilter)
    /\ taskCount' = RenderCount(todos')
    /\ loadingHidden' = TRUE
    /\ calls' = calls (-) One(c)
    /\ UNCHANGED <<projects, currentProject, currentFilter, selectOptions, selectValue,
                   todoInput, banners, issued, srvVars>>

\* changeProject(), lines 111-113, from the response on
ChangeProjectOk(c) ==
    /\ c.phase = "ok" /\ c.op = "changeProject"
    /\ todos' = c.gotTodos
    /\ todoHidden' = FALSE
    /\ rows' = RenderRows(todos', currentFilter)
    /\ taskCount' = RenderCount(todos')
    /\ loadingHidden' = TRUE
    /\ calls' = calls (-) One(c)
    /\ UNCHANGED <<projects, currentProject, currentFilter, selectOptions, selectValue,
                   todoInput, banners, issued, srvVars>>

\* mutant of AddTodoRejects: the current project is not tested
AddTodoRejectsText(text, current) == text = <<>>

\* !text || !this.currentProject, line 123
AddTodoRejects(text, current) == text = <<>> \/ Falsy(current)

\* the user leaves `value` in #todoInput and clicks Add or presses Enter:
\* addTodo(), lines 121-130, the guard and the request
AddTodo(value) ==
    /\ todoInput' = value
    /\ IF AddTodoRejects(Trim(value), currentProject)
       THEN /\ Noop
            /\ UNCHANGED <<selectOptions, selectValue, todoHidden, loadingHidden, rows,
                           taskCount>>
       ELSE /\ Cardinality(FreeTodoIds) > Pending("addTodo")
            /\ Issue(Call("addTodo", currentProject, 0, Trim(value), FALSE, "",
                          PreIfAlone))
            /\ UNCHANGED <<projects, todos, currentProject, currentFilter,
                           selectOptions, selectValue, todoHidden, rows, taskCount>>

\* addTodo(), lines 131-133, from the response on
AddTodoOk(c) ==
    /\ c.phase = "ok" /\ c.op = "addTodo"
    /\ todos' = Append(todos, c.gotTodos[1])
    /\ todoInput' = <<>>
    /\ rows' = RenderRows(todos', currentFilter)
    /\ taskCount' = RenderCount(todos')
    /\ loadingHidden' = TRUE
    /\ calls' = calls (-) One(c)
    /\ UNCHANGED <<projects, currentProject, currentFilter, selectOptions, selectValue,
                   todoHidden, banners, issued, srvVars>>

\* this.todos.find(t => t.id === id), line 142: the index of the first match, 0
\* when there is none
Find(ts, id) ==
    IF \E k \in DOMAIN ts : ts[k].id = id
    THEN CHOOSE k \in DOMAIN ts : ts[k].id = id /\ \A j \in 1..(k - 1) : ts[j].id # id
    ELSE 0

\* toggleTodo(id), lines 141-151: the lookup and the request
ToggleTodo(id) ==
    IF Find(todos, id) = 0
    THEN Noop /\ UNCHANGED domVars
    ELSE /\ Issue(Call("toggleTodo", currentProject, id, <<>>,
                       ~todos[Find(todos, id)].completed, "", PreIfAlone))
         /\ UNCHANGED <<projects, todos, currentProject, currentFilter, selectOptions,
                        selectValue, todoInput, todoHidden, rows, taskCount>>

\* mutant of ReplaceById: the id test is dropped
ReplaceEvery(ts, id, updated) == Map(ts, LAMBDA t : updated)

\* this.todos.map(t => t.id === id ? updated : t), line 152
ReplaceById(ts, id, updated) == Map(ts, LAMBDA t : IF t.id = id THEN updated ELSE t)

\* toggleTodo(id), lines 152-153, from the response on
ToggleTodoOk(c) ==
    /\ c.phase = "ok" /\ c.op = "toggleTodo"
    /\ todos' = ReplaceById(todos, c.id, c.gotTodos[1])
    /\ rows' = RenderRows(todos', currentFilter)
    /\ taskCount' = RenderCount(todos')
    /\ loadingHidden' = TRUE
    /\ calls' = calls (-) One(c)
    /\ UNCHANGED <<projects, currentProject, currentFilter, selectOptions, selectValue,
                   todoInput, todoHidden, banners, issued, srvVars>>

\* deleteTodo(id), lines 161-164: the request
DeleteTodo(id) ==
    /\ Issue(Call("deleteTodo", currentProject, id, <<>>, FALSE, "", PreIfAlone))
    /\ UNCHANGED <<projects, todos, currentProject, currentFilter, selectOptions,
                   selectValue, todoInput, todoHidden, rows, taskCount>>

\* this.todos.filter(t => t.id !== id), line 165
WithoutId(ts, id) == Filter(ts, LAMBDA t : t.id # id)

\* deleteTodo(id), lines 165-166, from the response on
DeleteTodoOk(c) ==
    /\ c.phase = "ok" /\ c.op = "deleteTodo"
    /\ todos' = WithoutId(todos, c.id)
    /\ rows' = RenderRows(todos', currentFilter)
    /\ taskCount' = RenderCount(todos')
    /\ loadingHidden' = TRUE
    /\ calls' = calls (-) One(c)
    /\ UNCHANGED <<projects, currentProject, currentFilter, selectOptions, selectValue,
                   todoInput, todoHidden, banners, issued, srvVars>>

\* mutant of SetFilter: the filtered list is stored back into this.todos
SetFilterStoring(filter) ==
    /\ currentFilter' = filter
    /\ todos' = GetFilteredTodos(todos, filter)
    /\ rows' = RenderRows(todos', currentFilter')
    /\ taskCount' = RenderCount(todos')
    /\ calls' = Interleave(calls)
    /\ UNCHANGED <<projects, currentProject, selectOptions, selectValue,
                   todoInput, todoHidden, loadingHidden, banners, issued, srvVars>>

\* setFilter(filter), lines 182-188
SetFilter(filter) ==
    /\ currentFilter' = filter
    /\ rows' = RenderRows(todos, currentFilter')
    /\ taskCount' = RenderCount(todos)
    /\ calls' = Interleave(calls)
    /\ UNCHANGED <<projects, todos, currentProject, selectOptions, selectValue,
                   todoInput, todoHidden, loadingHidden, banners, issued, srvVars>>

\* a second passes while banners are shown; a timer that is due fires first
Tick ==
    /\ banners # <<>>
    /\ \A k \in DOMAIN banners : banners[k].age < BannerDelay
    /\ banners' = [k \in DOMAIN banners |-> [banners[k] EXCEPT !.age = @ + 1]]
    /\ UNCHANGED <<projects, todos, currentProject, currentFilter, domVars, calls,
                   issued, srvVars>>

\* the timer of showError, line 179: error.remove()
RemoveBanner(k) ==
    /\ banners[k].age = BannerDelay
    /\ banners' = RemoveAt(banners, k)
    /\ UNCHANGED <<projects, todos, currentProject, currentFilter, domVars, calls,
                   issued, srvVars>>

(* --------------------------- specifications --------------------------- *)
\* everything the server, the user and the clock can do
Next ==
    \/ \E c \in BagToSet(calls) : SrvFail(c)
    \/ \E c \in BagToSet(calls) : SrvGetProjects(c)
    \/ \E c \in BagToSet(calls) : SrvCreateProject(c)
    \/ \E c \in BagToSet(calls) : SrvDeleteProject(c)
    \/ \E c \in BagToSet(calls) : SrvGetTodos(c)
    \/ \E c \in BagToSet(calls) : SrvCreateTodo(c)
    \/ \E c \in BagToSet(calls) : SrvUpdateTodo(c)
    \/ \E c \in BagToSet(calls) : SrvDeleteTodo(c)
    \/ \E c \in BagToSet(calls) : ApplyFail(c)
    \/ \E c \in BagToSet(calls) : LoadProjectsOk(c)
    \/ \E answer \in PromptAnswers : CreateProject(answer)
    \/ \E c \in BagToSet(calls) : CreateProjectOk(c)
    \/ \E confirmed \in BOOLEAN : DeleteProject(confirmed)
    \/ \E c \in BagToSet(calls) : DeleteProjectOk(c)
    \/ \E value \in {Str(n) : n \in 0..MaxProjectId} : ChangeProject(value)
    \/ \E c \in BagToSet(calls) : ChangeProjectOk(c)
    \/ \E value \in Inputs : AddTodo(value)
    \/ \E c \in BagToSet(calls) : AddTodoOk(c)
    \/ \E id \in TodoIds : ToggleTodo(id)
    \/ \E c \in BagToSet(calls) : ToggleTodoOk(c)
    \/ \E id \in TodoIds : DeleteTodo(id)
    \/ \E c \in BagToSet(calls) : DeleteTodoOk(c)
    \/ \E filter \in Filters : SetFilter(filter)
    \/ Tick
    \/ \E k \in DOMAIN banners : RemoveBanner(k)

Spec == Init /\ [][Next]_vars

\* the event loop: the clock advances and a timer that is due fires
SpecTimers ==
    /\ Spec
    /\ WF_vars(Tick)
    /\ WF_vars(\E k \in DOMAIN banners : RemoveBanner(k))

\* getFilteredTodos() and render() as functions of (todos, currentFilter):
\* the controller holds a list getTodos() returned for project 1, any list of
\* at most MaxListLen todos, and the user only switches filters
TodoLists ==
    UNION {[1..n -> [id : TodoIds, text : {<<"a">>}, completed : BOOLEAN]] :
             n \in 0..MaxListLen}

InitFilter ==
    /\ todos \in TodoLists
    /\ projects = Map(SortedSeq(InitProjects), LAMBDA n : [id |-> Str(n), name |-> "p"])
    /\ currentProject = Str(1)
    /\ currentFilter = "all"
    /\ selectOptions = RenderOptions(projects)
    /\ selectValue = Str(1)
    /\ todoInput = <<>>
    /\ todoHidden = FALSE
    /\ loadingHidden = TRUE
    /\ rows = RenderRows(todos, currentFilter)
    /\ taskCount = RenderCount(todos)
    /\ banners = <<>>
    /\ calls = EmptyBag
    /\ issued = 2
    /\ idKind = "str"
    /\ srvProjects = InitProjects
    /\ nextProjectId = Cardinality(InitProjects) + 1
    /\ srvTodos = InitTodos
    /\ failed = FALSE

NextFilter == \E filter \in Filters : SetFilter(filter)

SpecFilter == InitFilter /\ [][NextFilter]_vars

(* ------------------------------- claims ------------------------------- *)
\* a call c whose response is applied in this step
Applied(c) == c.phase \in {"ok", "fail"} /\ calls' = calls (-) One(c)

\* the project a todo of the in-memory list belongs to on the server
ProjectOf(todo) == srvTodos[todo.id].project

\* C1: in every reachable state every todo held in `todos` belongs to the
\* project identified by currentProject (none is held when it is null).
C1_TodosOfCurrentProject ==
    \A k \in DOMAIN todos :
        currentProject # Null /\ ProjectOf(todos[k]) = currentProject[2]

\* C2: an API-calling operation that runs with no other operation interleaved
\* and whose API call fails leaves projects, todos, currentProject and
\* currentFilter as they were just before it was invoked.
C2_FailureRestoresState ==
    [][\A c \in BagToSet(calls) :
          (ApplyFail(c) /\ c.pre # <<>>)
              => <<projects', todos', currentProject', currentFilter'>> = c.pre[1]]_vars

\* C3: when deleteProject's API call succeeds, the project deleted on the
\* server (the one sent with the request) leaves the in-memory list and no
\* other does, currentProject becomes null and the todo view is hidden.
C3_DeleteRemovesDeletedProject ==
    [][\A c \in BagToSet(calls) :
          DeleteProjectOk(c)
              => /\ projects' = Filter(projects, LAMBDA p : ToStr(p.id) # c.proj)
                 /\ \A k \in DOMAIN projects' : ToStr(projects'[k].id) # c.proj
                 /\ currentProject' = Null
                 /\ todoHidden']_vars

\* positions of the in-memory list that hold the todo with this id
Matching(id) == {k \in DOMAIN todos : todos[k].id = id}

Flying(cs) == Interleave(cs)

\* the message each operation's catch block shows
C5_Message(op) ==
    CASE op = "loadProjects"  -> "Failed to load projects"
      [] op = "createProject" -> "Failed to create project"
      [] op = "deleteProject" -> "Failed to delete project"
      [] op = "changeProject" -> "Failed to load todos"
      [] op = "addTodo"       -> "Failed to add todo"
      [] op = "toggleTodo"    -> "Failed to update todo"
      [] op = "deleteTodo"    -> "Failed to delete todo"

\* C5: every failed API call puts up exactly one banner, with the message of
\* the operation that failed; a successful call puts up none; a banner is
\* taken down only when it has been up for BannerDelay seconds, and none is
\* ever up for longer; every banner is eventually taken down.
C5_Banners ==
    /\ [][/\ \A c \in BagToSet(calls) :
                (c.phase = "fail" /\ Applied(c))
                    => banners' = Append(banners, [msg |-> C5_Message(c.op), age |-> 0])
          /\ \A c \in BagToSet(calls) :
                (c.phase = "ok" /\ (Applied(c) \/ CreateProjectOk(c))) => banners' = banners
          /\ Len(banners') > Len(banners)
                => \E c \in BagToSet(calls) : c.phase = "fail" /\ Applied(c)
          /\ Len(banners') < Len(banners)
                => \E k \in DOMAIN banners :
                      banners[k].age = BannerDelay /\ banners' = RemoveAt(banners, k)
          /\ \A k \in DOMAIN banners' : banners'[k].age <= BannerDelay]_vars
    /\ (banners # <<>>) ~> (banners = <<>>)

\* the banner of a failed deleteTodo has been up for BannerDelay seconds
C5_Witness ==
    /\ Len(banners) = 1
    /\ banners[1] = [msg |-> "Failed to delete todo", age |-> BannerDelay]

Blank(text) == \A k \in DOMAIN text : text[k] = Space

\* t is text without its leading and trailing spaces
IsTrimOf(t, text) ==
    \E a, b \in 0..Len(text) :
        /\ a + b <= Len(text)
        /\ t = SubSeq(text, a + 1, Len(text) - b)
        /\ \A k \in 1..a : text[k] = Space
        /\ \A k \in (Len(text) - b + 1)..Len(text) : text[k] = Space
        /\ t # <<>> => (t[1] # Space /\ t[Len(t)] # Space)

\* the copies of call c in a bag of calls
CountOf(cs, c) == IF c \in BagToSet(cs) THEN cs[c] ELSE 0

\* C6: addTodo with non-blank input and a project selected sends the trimmed
\* text, completed = false and the project id current at the invocation; when
\* the create call succeeds, `todos` is the previous list with the returned
\* todo appended at the end, and the input is cleared.
C6_AddTodoAppends ==
    [][/\ \A value \in Inputs :
             (AddTodo(value) /\ ~Blank(value) /\ currentProject # Null)
                 => \E c \in BagToSet(calls') :
                       /\ c.op = "addTodo" /\ c.phase = "req"
                       /\ CountOf(Flying(calls'), [c EXCEPT !.pre = <<>>])
                            = CountOf(Flying(calls), [c EXCEPT !.pre = <<>>]) + 1
                       /\ IsTrimOf(c.text, value)
                       /\ c.completed = FALSE
                       /\ c.proj = currentProject
       /\ \A c \in BagToSet(calls) :
             (c.op = "addTodo" /\ c.phase = "ok" /\ Applied(c))
                 => /\ todos' = todos \o <<c.gotTodos[1]>>
                    /\ todoInput' = <<>>]_vars

\* addTodo has appended the created todo to the list fetched for project 1
C6_Witness ==
    /\ Len(todos) = 2
    /\ todos[2] = [id |-> 2, text |-> <<"a">>, completed |-> FALSE]
    /\ todoInput = <<>>
    /\ issued = 3
    /\ calls = EmptyBag

\* C7: addTodo with empty or whitespace-only input, or with no project
\* selected, issues no API call, shows neither the loading indicator nor a
\* banner, and leaves projects, todos, currentProject and currentFilter alone.
C7_AddTodoIgnored ==
    [][\A value \in Inputs :
          (AddTodo(value) /\ (Blank(value) \/ currentProject = Null))
              => /\ Flying(calls') = Flying(calls)
                 /\ issued' = issued
                 /\ loadingHidden' = loadingHidden
                 /\ banners' = banners
                 /\ <<projects', todos', currentProject', currentFilter'>> = Snapshot]_vars

\* addTodo has run on whitespace-only input with a project selected, and
\* nothing was sent
C7_Witness ==
    /\ todoInput = <<Space>>
    /\ currentProject # Null
    /\ ~todoHidden
    /\ loadingHidden
    /\ issued = 2
    /\ calls = EmptyBag

\* C8: changeProject on the empty selection hides the todo view, issues no
\* getTodos request and leaves projects, todos, currentProject and
\* currentFilter alone.
C8_EmptySelectionHides ==
    [][ChangeProject(EmptyStr)
          => /\ todoHidden'
             /\ Flying(calls') = Flying(calls)
             /\ issued' = issued
             /\ <<projects', todos', currentProject', currentFilter'>> = Snapshot]_vars

\* the todos of project 1 were shown, then the empty option was chosen: the
\* view is hidden, the list and the current project stay
C8_Witness ==
    /\ todoHidden
    /\ selectValue = EmptyStr
    /\ currentProject = Str(1)
    /\ todos # <<>>
    /\ issued = 2
    /\ calls = EmptyBag

\* the todos a filter keeps
Keeps(filter, todo) ==
    CASE filter = "active"    -> ~todo.completed
      [] filter = "completed" -> todo.completed
      [] filter = "all"       -> TRUE

\* the k-th smallest member of a set of positions
Nth(K, j) == CHOOSE k \in K : Cardinality({m \in K : m <= k}) = j

\* r holds exactly the entries of ts the filter keeps, in the order of ts
IsFiltering(r, ts, filter) ==
    LET K == {k \in DOMAIN ts : Keeps(filter, ts[k])}
    IN  /\ Len(r) = Cardinality(K)
        /\ \A j \in 1..Len(r) : r[j] = ts[Nth(K, j)]

\* C9: setFilter(f) sets currentFilter to f and re-renders, issues no API
\* call and leaves todos, projects and currentProject alone; `todos` changes
\* only in the steps that apply the response of a successful API call.
C9_SetFilterOnlyView ==
    [][/\ \A f \in Filters :
             SetFilter(f)
                 => /\ currentFilter' = f
                    /\ IsFiltering(GetFilteredTodos(todos, f), todos, f)
                    /\ rows' = Map(GetFilteredTodos(todos, f), Row)
                    /\ taskCount' = RenderCount(todos)
                    /\ Flying(calls') = Flying(calls)
                    /\ issued' = issued
                    /\ <<projects', todos', currentProject'>>
                         = <<projects, todos, currentProject>>
       /\ todos' # todos
             => \E c \in BagToSet(calls) :
                   c.phase = "ok" /\ Applied(c)]_vars

\* the filter "completed" was chosen over a list with no completed todo
C9_Witness ==
    /\ currentFilter = "completed"
    /\ todos # <<>>
    /\ rows = <<>>
    /\ taskCount = RenderCount(todos)
    /\ calls = EmptyBag

\* C10: for every todo list and every filter value getFilteredTodos returns
\* exactly the todos the filter keeps (active: not completed; completed:
\* completed; all: every todo), in their order in `todos`, none added or
\* repeated; render() writes one row for each of them.
C10_FilteredExactly ==
    /\ \A f \in Filters : IsFiltering(GetFilteredTodos(todos, f), todos, f)
    /\ rows = Map(GetFilteredTodos(todos, currentFilter), Row)

\* the filter "active" drops the completed middle entry of a list of three
\* and keeps both entries that share an id
C10_Witness ==
    /\ currentFilter = "active"
    /\ Len(todos) = 3
    /\ todos[2].completed
    /\ ~todos[1].completed /\ ~todos[3].completed
    /\ todos[1].id = todos[3].id
    /\ rows = <<Row(todos[1]), Row(todos[3])>>

\* render() has run at least once
Rendered == taskCount # <<>>

\* C11: once render() has run, the counter shows the number of entries of
\* `todos` that are not completed, whatever the filter, as "1 task left" when
\* that number is 1 and as "N tasks left" for every other N, 0 included.
C11_CounterShowsActive ==
    Rendered =>
        LET n == Cardinality({k \in DOMAIN todos : todos[k].completed = FALSE})
        IN  taskCount = <<n, IF n = 1 THEN "task" ELSE "tasks", "left">>

\* one active todo is counted while the filter "completed" shows no row
C11_Witness ==
    /\ taskCount = <<1, "task", "left">>
    /\ currentFilter = "completed"
    /\ rows = <<>>
    /\ Len(todos) = 1

\* C12: the loading indicator is visible exactly when at least one
\* API-calling operation is in progress (issued, outcome not yet applied),
\* also when operations overlap.
C12_LoadingWhileInProgress == loadingHidden <=> (calls = EmptyBag)

\* C13: when changeProject operations overlap and succeed, each response
\* overwrites `todos` with the list it carries as it is applied, so after both
\* are applied `todos` is the list of the response that arrived last,
\* whichever request was issued first.
C13_LastResponseWins ==
    [][\A c \in BagToSet(calls) :
          (c.op = "changeProject" /\ c.phase = "ok" /\ Applied(c))
              => todos' = c.gotTodos]_vars

\* project 1 then project 2 were selected and the response for project 1 was
\* applied last: its list is held although project 2 is current
C13_Witness ==
    /\ currentProject = Str(2)
    /\ todos = <<[id |-> 1, text |-> <<"a">>, completed |-> FALSE]>>
    /\ ~todoHidden
    /\ issued = 3
    /\ calls = EmptyBag

\* the fetch createProject awaits after its own API call has succeeded
FetchOfCreate(c) == c.op = "changeProject" /\ c.name # ""

\* C14 as claimed: when createProject's API call and the following todo fetch
\* have succeeded, the project list ends with the returned project,
\* currentProject identifies it, `todos` is the list fetched for it and the
\* todo view is visible.
C14_CreateSelectsAndLoads ==
    [][\A c \in BagToSet(calls) :
          (FetchOfCreate(c) /\ c.phase = "ok" /\ Applied(c))
              => /\ projects' # <<>>
                 /\ ToStr(projects'[Len(projects')].id) = c.proj
                 /\ currentProject' = c.proj
                 /\ todos' = c.gotTodos
                 /\ ~todoHidden']_vars

\* C14 as amended: when the response of createProject's API call is applied,
\* the returned project is appended to the project list, becomes the current
\* project and its todos are requested; when the response of that fetch is
\* applied, `todos` is the fetched list and the todo view is visible; when no
\* other operation ran in between, the project list is then still the previous
\* list with the new project at its end and the new project is still current.
\* createProject with an empty or cancelled name issues no call and changes
\* no state.
C14_CreateAppendsThenLoads ==
    [][/\ \A c \in BagToSet(calls) :
             CreateProjectOk(c)
                 => /\ projects' = projects \o <<c.gotProjects[1]>>
                    /\ currentProject' = ToStr(c.gotProjects[1].id)
                    /\ selectValue' = currentProject'
                    /\ \E d \in BagToSet(calls') :
                          /\ FetchOfCreate(d) /\ d.phase = "req"
                          /\ d.proj = currentProject'
                          /\ CountOf(Flying(calls'), [d EXCEPT !.pre = <<>>])
                               = CountOf(Flying(calls), [d EXCEPT !.pre = <<>>]) + 1
                    /\ c.pre # <<>> => projects = c.pre[1][1]
       /\ \A c \in BagToSet(calls) :
             (FetchOfCreate(c) /\ c.phase = "ok" /\ Applied(c))
                 => /\ todos' = c.gotTodos
                    /\ ~todoHidden'
                    /\ c.pre # <<>>
                          => /\ projects' = c.pre[1][1]
                             /\ ToStr(projects'[Len(projects')].id) = c.proj
                             /\ currentProject' = c.proj
       /\ \A answer \in {"cancel", ""} :
             CreateProject(answer)
                 => /\ Flying(calls') = Flying(calls)
                    /\ issued' = issued
                    /\ loadingHidden' = loadingHidden
                    /\ <<projects', todos', currentProject', currentFilter'>> = Snapshot]_vars

\* a project was created and its empty todo list fetched, nothing else having
\* run since startup: it is the third of the list, current, and shown
C14_Witness ==
    /\ Len(projects) = 3
    /\ currentProject = Str(3)
    /\ ToStr(projects[3].id) = Str(3)
    /\ todos = <<>>
    /\ ~todoHidden
    /\ issued = 3
    /\ calls = EmptyBag

\* the ids of the in-memory project list, as project numbers
ProjectNumbers == {projects[k].id[2] : k \in DOMAIN projects}

\* C15: in every state where no request is in flight and no API call has
\* failed, the in-memory project list holds exactly the projects that exist on
\* the server, each once.
C15_ProjectsMirrorServer ==
    (calls = EmptyBag /\ ~failed)
        => /\ ProjectNumbers = srvProjects
           /\ Len(projects) = Cardinality(srvProjects)

\* the rows a list shows under a filter: one per kept todo, in list order
ShowsRows(r, ts, filter) ==
    LET K == {k \in DOMAIN ts : Keeps(filter, ts[k])}
    IN  /\ Len(r) = Cardinality(K)
        /\ \A j \in 1..Len(r) :
              r[j] = [checked |-> ts[Nth(K, j)].completed, id |-> ts[Nth(K, j)].id,
                      text |-> ts[Nth(K, j)].text]

\* C16: once render() has run, the rendered rows are exactly the todos of
\* `todos` that currentFilter keeps, one row each, in order; every step that
\* changes `todos` or currentFilter renders in that same step, and a step
\* that issues a request renders nothing.
C16_RowsAreFilteredTodos ==
    /\ [](Rendered => ShowsRows(rows, todos, currentFilter))
    /\ [][/\ (todos' # todos \/ currentFilter' # currentFilter)
                => (taskCount' # <<>> /\ ShowsRows(rows', todos', currentFilter'))
          /\ issued' # issued => (rows' = rows /\ taskCount' = taskCount)]_vars

\* the filter "active" shows one row of a list of two, the other todo having
\* been toggled to completed
C16_Witness ==
    /\ currentFilter = "active"
    /\ Len(todos) = 2
    /\ Len(rows) = 1
    /\ ~rows[1].checked
    /\ calls = EmptyBag

\* C17: whenever the todo view is visible, currentProject is not null (so
\* that no todo request made from the view carries a null project id).
C17_VisibleViewHasProject == ~todoHidden => currentProject # Null

\* C18: the server assigning distinct ids to todos, `todos` never holds two
\* entries with the same id.
C18_DistinctTodoIds ==
    \A j, k \in DOMAIN todos : j # k => todos[j].id # todos[k].id

\* the server's todos of project number n, as records
ServerTodos(n) ==
    {[id |-> i, text |-> srvTodos[i].text, completed |-> srvTodos[i].completed] :
        i \in {t \in TodoIds : srvTodos[t].st = "live" /\ srvTodos[t].project = n}}

\* C19: in every state where no request is in flight and no API call has
\* failed, `todos` holds exactly the server's todos of the current project,
\* each once, with the same id, text and completed flag.
C19_TodosMirrorServer ==
    (calls = EmptyBag /\ ~failed /\ currentProject # Null)
        => /\ {todos[k] : k \in DOMAIN todos} = ServerTodos(currentProject[2])
           /\ Len(todos) = Cardinality(ServerTodos(currentProject[2]))

\* call c is issued in this step
IssuedNow(c) ==
    /\ c.phase = "req"
    /\ issued' # issued
    /\ CountOf(Flying(calls'), [c EXCEPT !.pre = <<>>])
         = CountOf(Flying(calls), [c EXCEPT !.pre = <<>>]) + 1

\* C20: whenever deleteProject or addTodo issues a request, the project id it
\* sends is the one selected in the project selector; with the empty option
\* selected they issue nothing.
C20_SendsSelectedProject ==
    [][\A c \in BagToSet(calls') :
          (c.op \in {"deleteProject", "addTodo"} /\ IssuedNow(c))
              => c.proj = selectValue]_vars

====
